---------------------------- MODULE Spec2Model ----------------------------
(***************************************************************************)
(* Staking parameters (x/staking/types/params.go): the Params record, its  *)
(* constructors, the (key, pointer) pairs handed to the parameter store,   *)
(* validation, and equality by canonical encoding.                         *)
(*                                                                         *)
(* Go values are modelled as follows.                                      *)
(*   time.Duration   an integer (nanoseconds, may be negative)             *)
(*   uint16          a natural below 2^16                                  *)
(*   string, []byte  a sequence of bytes (naturals below 256); keys, which *)
(*                   are only ever compared, are TLA+ strings              *)
(*   sdk.Dec         the integer held by its big.Int (non-nil)             *)
(*   *T              a record [inst, field] naming one field of one Params *)
(***************************************************************************)
EXTENDS Integers, Sequences, FiniteSets, TLC

VARIABLES heap, pairs, ret

vars == <<heap, pairs, ret>>

(***************************************************************************)
(* The Params variables of the client; the store is handed the pairs of    *)
(* the managed ones.                                                       *)
(***************************************************************************)
Inst == {"a", "b"}

Managed == {"a"}

(***************************************************************************)
(* Default values (params.go:15-33).  They come from the config package;   *)
(* representatives that pass Validate stand for them.                      *)
(***************************************************************************)
DefaultUnbondingTime == 1

DefaultMaxValidators == 200

DefaultEpoch == 200

DefaultMaxValsToVote == 200

DefaultMinSelfDelegationLimit == 1

DefaultMinDelegation == 1

DefaultBondDenom == <<115>>

(***************************************************************************)
(* The values the inputs take: for each type its zero value, the default   *)
(* and one more.  A denomination is a prefix of "stake".                   *)
(***************************************************************************)
MaxDenomLen == 1

MaxUint16 == 65535

DurationVals == {-1, 0, DefaultUnbondingTime}

Uint16Vals == {0, DefaultMaxValidators, MaxUint16}

DenomVals == {SubSeq(<<115, 116, 97, 107, 101>>, 1, n) : n \in 0..MaxDenomLen}

DecVals == {-1, 0, 1}

(***************************************************************************)
(* Keys for parameter access (params.go:36-46).                            *)
(***************************************************************************)
KeyUnbondingTime == "UnbondingTime"

KeyMaxValidators == "MaxValidators"

KeyBondDenom == "BondDenom"

KeyEpoch == "BlocksPerEpoch"

KeyTheEndOfLastEpoch == "TheEndOfLastEpoch"

KeyMaxValsToVote == "MaxValsToVote"

KeyMinSelfDelegationLimit == "MinSelfDelegationLimit"

KeyMinDelegation == "MinDelegation"

(***************************************************************************)
(* type Params struct (params.go:51-66).                                   *)
(***************************************************************************)
Params ==
    [UnbondingTime : DurationVals,
     MaxValidators : Uint16Vals,
     Epoch : Uint16Vals,
     MaxValsToVote : Uint16Vals,
     BondDenom : DenomVals,
     MinSelfDelegationLimit : DecVals,
     MinDelegation : DecVals]

FieldNames ==
    {"UnbondingTime", "MaxValidators", "Epoch", "MaxValsToVote", "BondDenom",
     "MinSelfDelegationLimit", "MinDelegation"}

\* The values of the declared type of a field.
FieldVals ==
    [f \in FieldNames |->
        CASE f = "UnbondingTime" -> DurationVals
          [] f \in {"MaxValidators", "Epoch", "MaxValsToVote"} -> Uint16Vals
          [] f = "BondDenom" -> DenomVals
          [] f \in {"MinSelfDelegationLimit", "MinDelegation"} -> DecVals]

\* The values the store holds for a field and writes back: for each field
\* one that Validate rejects (or, where it checks nothing, a second one)
\* and the default.
StoreVals ==
    [f \in FieldNames |->
        CASE f = "UnbondingTime" -> {-1, DefaultUnbondingTime}
          [] f \in {"MaxValidators", "Epoch", "MaxValsToVote"} ->
                 {0, DefaultMaxValidators}
          [] f = "BondDenom" -> {<<>>, DefaultBondDenom}
          [] f = "MinSelfDelegationLimit" -> {0, DefaultMinSelfDelegationLimit}
          [] f = "MinDelegation" -> {0, DefaultMinDelegation}]

(***************************************************************************)
(* NewParams (params.go:69-81).                                            *)
(***************************************************************************)
\* NewParams with the two adjacent uint16 arguments epoch and maxValsToVote
\* filled into each other's field.
NewParamsSwapped(unbondingTime, maxValidators, bondDenom, epoch, maxValsToVote, minSelfDelegationLimited, minDelegation) ==
    [UnbondingTime |-> unbondingTime,
     MaxValidators |-> maxValidators,
     BondDenom |-> bondDenom,
     Epoch |-> maxValsToVote,
     MaxValsToVote |-> epoch,
     MinSelfDelegationLimit |-> minSelfDelegationLimited,
     MinDelegation |-> minDelegation]

NewParams(unbondingTime, maxValidators, bondDenom, epoch, maxValsToVote, minSelfDelegationLimited, minDelegation) ==
    [UnbondingTime |-> unbondingTime,
     MaxValidators |-> maxValidators,
     BondDenom |-> bondDenom,
     Epoch |-> epoch,
     MaxValsToVote |-> maxValsToVote,
     MinSelfDelegationLimit |-> minSelfDelegationLimited,
     MinDelegation |-> minDelegation]

(***************************************************************************)
(* DefaultParams (params.go:105-109).                                      *)
(***************************************************************************)
DefaultParams ==
    NewParams(DefaultUnbondingTime, DefaultMaxValidators,
              DefaultBondDenom, DefaultEpoch, DefaultMaxValsToVote,
              DefaultMinSelfDelegationLimit, DefaultMinDelegation)

(***************************************************************************)
(* ParamSetPairs (params.go:84-94): for the Params variable i, the pairs   *)
(* of a key and a pointer to a field of that variable.                     *)
(***************************************************************************)
AddrOf(i, f) == [inst |-> i, field |-> f]

\* ParamSetPairs with the pointers of KeyEpoch and KeyMaxValsToVote exchanged.
ParamSetPairsSwapped(i) ==
    << [Key |-> KeyUnbondingTime, Value |-> AddrOf(i, "UnbondingTime")],
       [Key |-> KeyMaxValidators, Value |-> AddrOf(i, "MaxValidators")],
       [Key |-> KeyBondDenom, Value |-> AddrOf(i, "BondDenom")],
       [Key |-> KeyEpoch, Value |-> AddrOf(i, "MaxValsToVote")],
       [Key |-> KeyMaxValsToVote, Value |-> AddrOf(i, "Epoch")],
       [Key |-> KeyMinSelfDelegationLimit,
        Value |-> AddrOf(i, "MinSelfDelegationLimit")],
       [Key |-> KeyMinDelegation, Value |-> AddrOf(i, "MinDelegation")] >>

ParamSetPairs(i) ==
    << [Key |-> KeyUnbondingTime, Value |-> AddrOf(i, "UnbondingTime")],
       [Key |-> KeyMaxValidators, Value |-> AddrOf(i, "MaxValidators")],
       [Key |-> KeyBondDenom, Value |-> AddrOf(i, "BondDenom")],
       [Key |-> KeyEpoch, Value |-> AddrOf(i, "Epoch")],
       [Key |-> KeyMaxValsToVote, Value |-> AddrOf(i, "MaxValsToVote")],
       [Key |-> KeyMinSelfDelegationLimit,
        Value |-> AddrOf(i, "MinSelfDelegationLimit")],
       [Key |-> KeyMinDelegation, Value |-> AddrOf(i, "MinDelegation")] >>

\* Reading and writing through a pointer to a field.
Load(h, ptr) == h[ptr.inst][ptr.field]

\* A write that lands in a copy of the struct (a value receiver): the
\* variable keeps its field.
StoreToCopy(h, ptr, v) == h

\* A write that lands in the named field of every variable (the pointers
\* alias one shared struct).
StoreShared(h, ptr, v) == [i \in DOMAIN h |-> [h[i] EXCEPT ![ptr.field] = v]]

Store(h, ptr, v) == [h EXCEPT ![ptr.inst][ptr.field] = v]

(***************************************************************************)
(* Validate (params.go:125-142): nil, or the error of the first check that *)
(* fails.                                                                  *)
(***************************************************************************)
ErrNil == "nil"

ErrBondDenom == "staking parameter BondDenom can't be an empty string"

ErrMaxValidators == "staking parameter MaxValidators must be a positive integer"

ErrEpoch == "staking parameter Epoch must be a positive integer"

ErrMaxValsToVote == "staking parameter MaxValsToVote must be a positive integer"

ErrMinSelfDelegationLimit ==
    "staking parameter MinSelfDelegationLimit cannot be a negative integer"

ZeroDec == 0

LTE(d, d2) == d <= d2

\* Validate with the Epoch check ahead of the MaxValidators check.
ValidateEpochFirst(p) ==
    IF p.BondDenom = <<>> THEN ErrBondDenom
    ELSE IF p.Epoch = 0 THEN ErrEpoch
    ELSE IF p.MaxValidators = 0 THEN ErrMaxValidators
    ELSE IF p.MaxValsToVote = 0 THEN ErrMaxValsToVote
    ELSE IF LTE(p.MinSelfDelegationLimit, ZeroDec) THEN ErrMinSelfDelegationLimit
    ELSE ErrNil

\* Validate with a sixth check, on MinDelegation.
ValidateMinDelegation(p) ==
    IF p.BondDenom = <<>> THEN ErrBondDenom
    ELSE IF p.MaxValidators = 0 THEN ErrMaxValidators
    ELSE IF p.Epoch = 0 THEN ErrEpoch
    ELSE IF p.MaxValsToVote = 0 THEN ErrMaxValsToVote
    ELSE IF LTE(p.MinSelfDelegationLimit, ZeroDec) THEN ErrMinSelfDelegationLimit
    ELSE IF LTE(p.MinDelegation, ZeroDec)
         THEN "staking parameter MinDelegation cannot be a negative integer"
    ELSE ErrNil

Validate(p) ==
    IF p.BondDenom = <<>> THEN ErrBondDenom
    ELSE IF p.MaxValidators = 0 THEN ErrMaxValidators
    ELSE IF p.Epoch = 0 THEN ErrEpoch
    ELSE IF p.MaxValsToVote = 0 THEN ErrMaxValsToVote
    ELSE IF LTE(p.MinSelfDelegationLimit, ZeroDec) THEN ErrMinSelfDelegationLimit
    ELSE ErrNil

(***************************************************************************)
(* The canonical codec behind ModuleCdc.MustMarshalBinaryLengthPrefixed:   *)
(* a length-prefixed binary encoding of the struct, field by field in      *)
(* declaration order, each field as a key byte (field number and wire      *)
(* type) followed by its value; a field holding the zero value of a basic  *)
(* type is left out.                                                       *)
(***************************************************************************)
RECURSIVE EncodeUvarint(_)
EncodeUvarint(n) ==
    IF n < 128 THEN <<n>>
    ELSE <<128 + (n % 128)>> \o EncodeUvarint(n \div 128)

\* Signed integers are zig-zag coded, then written as an unsigned varint.
EncodeVarint(i) == EncodeUvarint(IF i >= 0 THEN 2 * i ELSE -2 * i - 1)

EncodeByteSlice(bz) == EncodeUvarint(Len(bz)) \o bz

Typ3Varint == 0

Typ3ByteLength == 2

EncodeFieldKey(num, typ3) == EncodeUvarint(num * 8 + typ3)

\* The decimal text of an sdk.Dec (big.Int.MarshalText), as ASCII bytes.
RECURSIVE DecDigits(_)
DecDigits(n) ==
    IF n < 10 THEN <<48 + n>>
    ELSE DecDigits(n \div 10) \o <<48 + (n % 10)>>

DecMarshalAmino(d) == IF d < 0 THEN <<45>> \o DecDigits(-d) ELSE DecDigits(d)

MarshalBinaryBare(p) ==
       (IF p.UnbondingTime = 0 THEN <<>>
        ELSE EncodeFieldKey(1, Typ3Varint) \o EncodeVarint(p.UnbondingTime))
    \o (IF p.MaxValidators = 0 THEN <<>>
        ELSE EncodeFieldKey(2, Typ3Varint) \o EncodeUvarint(p.MaxValidators))
    \o (IF p.Epoch = 0 THEN <<>>
        ELSE EncodeFieldKey(3, Typ3Varint) \o EncodeUvarint(p.Epoch))
    \o (IF p.MaxValsToVote = 0 THEN <<>>
        ELSE EncodeFieldKey(4, Typ3Varint) \o EncodeUvarint(p.MaxValsToVote))
    \o (IF p.BondDenom = <<>> THEN <<>>
        ELSE EncodeFieldKey(5, Typ3ByteLength) \o EncodeByteSlice(p.BondDenom))
    \o EncodeFieldKey(6, Typ3ByteLength)
    \o EncodeByteSlice(DecMarshalAmino(p.MinSelfDelegationLimit))
    \o EncodeFieldKey(7, Typ3ByteLength)
    \o EncodeByteSlice(DecMarshalAmino(p.MinDelegation))

MustMarshalBinaryLengthPrefixed(p) ==
    EncodeByteSlice(MarshalBinaryBare(p))

(***************************************************************************)
(* Equal (params.go:98-102).                                               *)
(***************************************************************************)
BytesEqual(bz1, bz2) == bz1 = bz2

\* Equal with the second encoding taken of the receiver again.
EqualSelf(p, p2) ==
    LET bz1 == MustMarshalBinaryLengthPrefixed(p)
        bz2 == MustMarshalBinaryLengthPrefixed(p)
    IN  BytesEqual(bz1, bz2)

\* Equal comparing the lengths of the encodings only.
EqualLen(p, p2) ==
    LET bz1 == MustMarshalBinaryLengthPrefixed(p)
        bz2 == MustMarshalBinaryLengthPrefixed(p2)
    IN  Len(bz1) = Len(bz2)

Equal(p, p2) ==
    LET bz1 == MustMarshalBinaryLengthPrefixed(p)
        bz2 == MustMarshalBinaryLengthPrefixed(p2)
    IN  BytesEqual(bz1, bz2)

(***************************************************************************)
(* The client.  It declares Params variables, each filled by NewParams,    *)
(* DefaultParams or a copy of another; it hands the pairs of a managed     *)
(* variable to the parameter store, which writes through their pointers;   *)
(* and it calls Validate and Equal.  heap maps each variable in scope to   *)
(* its value, pairs holds what the store was handed, ret is the last call  *)
(* with what it returned.                                                  *)
(***************************************************************************)
Declared(h) == DOMAIN h

Alloc(h, i, p) == [k \in Declared(h) \cup {i} |-> IF k = i THEN p ELSE h[k]]

Free(h, i) == [k \in Declared(h) \ {i} |-> h[k]]

Init ==
    /\ heap = << >>
    /\ pairs = [i \in Managed |-> <<>>]
    /\ ret = [op |-> "init"]

\* p := NewParams(ut, mv, bd, ep, mvv, msdl, md), each argument one of the
\* values vals gives for the field it fills.
CallNewParams(i, vals) ==
    /\ i \notin Declared(heap)
    /\ \E ut \in vals["UnbondingTime"], mv \in vals["MaxValidators"],
          bd \in vals["BondDenom"], ep \in vals["Epoch"],
          mvv \in vals["MaxValsToVote"],
          msdl \in vals["MinSelfDelegationLimit"],
          md \in vals["MinDelegation"] :
          /\ heap' = Alloc(heap, i, NewParams(ut, mv, bd, ep, mvv, msdl, md))
          /\ ret' = [op |-> "NewParams", recv |-> i,
                     args |-> [unbondingTime |-> ut, maxValidators |-> mv,
                               bondDenom |-> bd, epoch |-> ep,
                               maxValsToVote |-> mvv,
                               minSelfDelegationLimited |-> msdl,
                               minDelegation |-> md]]
    /\ UNCHANGED pairs

\* p := DefaultParams()
CallDefaultParams(i) ==
    /\ i \notin Declared(heap)
    /\ heap' = Alloc(heap, i, DefaultParams)
    /\ ret' = [op |-> "DefaultParams", recv |-> i]
    /\ UNCHANGED pairs

\* q := p, a copy of the struct
Copy(i, j) ==
    /\ i \notin Declared(heap)
    /\ j \in Declared(heap)
    /\ heap' = Alloc(heap, i, heap[j])
    /\ ret' = [op |-> "Copy", recv |-> i, arg |-> j]
    /\ UNCHANGED pairs

\* The variable leaves scope, and the store drops the pairs pointing into it.
Release(i) ==
    /\ i \in Declared(heap)
    /\ heap' = Free(heap, i)
    /\ pairs' = [k \in Managed |-> IF k = i THEN <<>> ELSE pairs[k]]
    /\ ret' = [op |-> "Release", recv |-> i]

\* The store is handed p.ParamSetPairs(), the receiver being &p.
CallParamSetPairs(i) ==
    /\ i \in Declared(heap)
    /\ pairs' = [pairs EXCEPT ![i] = ParamSetPairs(i)]
    /\ ret' = [op |-> "ParamSetPairs", recv |-> i, result |-> ParamSetPairs(i)]
    /\ UNCHANGED heap

\* The store writes a value it holds for the field through the pointer of
\* one of the pairs it was handed for i.
Set(i) ==
    /\ \E k \in 1..Len(pairs[i]) :
         \E v \in StoreVals[pairs[i][k].Value.field] :
            /\ heap' = Store(heap, pairs[i][k].Value, v)
            /\ ret' = [op |-> "Set", recv |-> i, key |-> pairs[i][k].Key,
                       value |-> v]
    /\ UNCHANGED pairs

\* Validate on a pointer receiver that fills a zero Epoch with the default
\* before checking.
CallValidateInPlace(i) ==
    /\ i \in Declared(heap)
    /\ LET p == IF heap[i].Epoch = 0
                THEN [heap[i] EXCEPT !.Epoch = DefaultEpoch]
                ELSE heap[i]
       IN  /\ ret' = [op |-> "Validate", recv |-> i, result |-> Validate(p)]
           /\ heap' = [heap EXCEPT ![i] = p]
    /\ UNCHANGED pairs

\* err := p.Validate(); the receiver is a copy of p.
CallValidate(i) ==
    /\ i \in Declared(heap)
    /\ LET p == heap[i]
       IN  ret' = [op |-> "Validate", recv |-> i, result |-> Validate(p)]
    /\ UNCHANGED <<heap, pairs>>

\* eq := p.Equal(p2); receiver and argument are copies.
CallEqual(i, j) ==
    /\ i \in Declared(heap)
    /\ j \in Declared(heap)
    /\ LET p == heap[i]
           p2 == heap[j]
       IN  ret' = [op |-> "Equal", recv |-> i, arg |-> j, result |-> Equal(p, p2)]
    /\ UNCHANGED <<heap, pairs>>

(***************************************************************************)
(* Spec: the client and the store at work on the variables.  The written   *)
(* and constructed values are those the store holds.                       *)
(***************************************************************************)
Next ==
    \/ \E i \in Inst : CallNewParams(i, StoreVals)
    \/ \E i \in Inst : CallDefaultParams(i)
    \/ \E i, j \in Inst : Copy(i, j)
    \/ \E i \in Inst : Release(i)
    \/ \E i \in Managed : CallParamSetPairs(i)
    \/ \E i \in Managed : Set(i)
    \/ \E i \in Inst : CallValidate(i)
    \/ \E i, j \in Inst : CallEqual(i, j)

Spec == Init /\ [][Next]_vars

(***************************************************************************)
(* SpecFn: NewParams and Validate applied to every input.  One variable is *)
(* filled with every combination of values of the field types, and         *)
(* validated.                                                              *)
(***************************************************************************)
Subject == {"a"}

NextFn ==
    \/ \E i \in Subject : CallNewParams(i, FieldVals)
    \/ \E i \in Subject : CallDefaultParams(i)
    \/ \E i \in Subject : CallValidate(i)
    \/ \E i \in Subject : Release(i)

SpecFn == Init /\ [][NextFn]_vars

(***************************************************************************)
(* The properties.  A property about a call is stated of the state right   *)
(* after it, where ret holds the call, or of the step that makes it.       *)
(***************************************************************************)

\* The keys of the pairs, in order, and the field each key stands for.
PairKeys ==
    << "UnbondingTime", "MaxValidators", "BondDenom", "BlocksPerEpoch",
       "MaxValsToVote", "MinSelfDelegationLimit", "MinDelegation" >>

KeyField(k) ==
    CASE k = "UnbondingTime" -> "UnbondingTime"
      [] k = "MaxValidators" -> "MaxValidators"
      [] k = "BondDenom" -> "BondDenom"
      [] k = "BlocksPerEpoch" -> "Epoch"
      [] k = "MaxValsToVote" -> "MaxValsToVote"
      [] k = "MinSelfDelegationLimit" -> "MinSelfDelegationLimit"
      [] k = "MinDelegation" -> "MinDelegation"

\* The five checks in the stated order: whether p violates each, and the
\* error reported for it.
Checks(p) ==
    << [violated |-> Len(p.BondDenom) = 0, err |-> ErrBondDenom],
       [violated |-> ~(p.MaxValidators > 0), err |-> ErrMaxValidators],
       [violated |-> ~(p.Epoch > 0), err |-> ErrEpoch],
       [violated |-> ~(p.MaxValsToVote > 0), err |-> ErrMaxValsToVote],
       [violated |-> ~(p.MinSelfDelegationLimit > 0),
        err |-> ErrMinSelfDelegationLimit] >>

ViolatedChecks(p) == {k \in 1..Len(Checks(p)) : Checks(p)[k].violated}

FirstViolated(p) ==
    CHOOSE k \in ViolatedChecks(p) : \A m \in ViolatedChecks(p) : k <= m

\* C1: Validate returns nil exactly when the denomination is non-empty and
\* MaxValidators, Epoch, MaxValsToVote and MinSelfDelegationLimit are
\* positive; otherwise it returns the error of the first violated check in
\* the order denomination, MaxValidators, Epoch, MaxValsToVote,
\* MinSelfDelegationLimit, whatever later checks fail too.
ValidateFirstViolated ==
    ret.op = "Validate" =>
        LET p == heap[ret.recv]
        IN  /\ (ret.result = ErrNil) <=> (ViolatedChecks(p) = {})
            /\ ViolatedChecks(p) # {} =>
                   ret.result = Checks(p)[FirstViolated(p)].err

\* An empty denomination together with MaxValidators = 0 was validated, and
\* the empty-denomination error came back.
ValidateFirstViolatedWitness ==
    /\ ret.op = "Validate"
    /\ heap[ret.recv].BondDenom = <<>>
    /\ heap[ret.recv].MaxValidators = 0
    /\ ret.result = ErrBondDenom

\* C2: every call of ParamSetPairs, on any Params and after any
\* constructions and writes, returns seven pairs whose keys are, in order,
\* UnbondingTime, MaxValidators, BondDenom, BlocksPerEpoch, MaxValsToVote,
\* MinSelfDelegationLimit, MinDelegation, each pointing to the matching
\* field of the receiver; and the same sequence as an earlier call on it.
PairsFixed ==
    [][ret'.op = "ParamSetPairs" =>
          /\ Len(ret'.result) = 7
          /\ [k \in 1..Len(ret'.result) |-> ret'.result[k].Key] = PairKeys
          /\ \A k \in 1..Len(ret'.result) :
                ret'.result[k].Value =
                    [inst |-> ret'.recv, field |-> KeyField(ret'.result[k].Key)]
          /\ pairs[ret'.recv] # <<>> => ret'.result = pairs[ret'.recv]]_vars

\* ParamSetPairs was called a second time on a Params that writes have left
\* invalid.
PairsFixedWitness ==
    /\ ret.op = "ParamSetPairs"
    /\ Validate(heap[ret.recv]) = ErrMaxValsToVote
    /\ heap[ret.recv].UnbondingTime < 0

\* C3: after a value is written through the pointer of the pair for a key,
\* the matching field of that Params holds the value, read directly, through
\* the pointer of the pairs handed out earlier, or through the pointer of a
\* later ParamSetPairs call.
WriteThrough ==
    ret.op = "Set" =>
        /\ heap[ret.recv][KeyField(ret.key)] = ret.value
        /\ \A k \in 1..Len(pairs[ret.recv]) :
              pairs[ret.recv][k].Key = ret.key =>
                  Load(heap, pairs[ret.recv][k].Value) = ret.value
        /\ \A k \in 1..Len(ParamSetPairs(ret.recv)) :
              ParamSetPairs(ret.recv)[k].Key = ret.key =>
                  Load(heap, ParamSetPairs(ret.recv)[k].Value) = ret.value

\* Zero was written through the pointer for MaxValidators of a Params whose
\* other fields are the defaults.
WriteThroughWitness ==
    /\ ret.op = "Set"
    /\ ret.key = "MaxValidators"
    /\ ret.value = 0
    /\ heap[ret.recv] = [DefaultParams EXCEPT !.MaxValidators = 0]

\* C4: Equal returns true exactly when the length-prefixed encodings of the
\* two Params are the same bytes; so a Params equals itself, two Params
\* with the same values in all seven fields are equal however they were
\* built, and two results of DefaultParams are equal.
EqualIffSameBytes ==
    ret.op = "Equal" =>
        LET a == heap[ret.recv]
            b == heap[ret.arg]
        IN  /\ ret.result <=>
                   (MustMarshalBinaryLengthPrefixed(a) =
                        MustMarshalBinaryLengthPrefixed(b))
            /\ ret.recv = ret.arg => ret.result
            /\ (\A f \in FieldNames : a[f] = b[f]) => ret.result
            /\ (a = DefaultParams /\ b = DefaultParams) => ret.result

\* Two variables that hold the same values, not the defaults, were compared
\* and found equal.
EqualIffSameBytesWitness ==
    /\ ret.op = "Equal"
    /\ ret.recv # ret.arg
    /\ heap[ret.recv] = heap[ret.arg]
    /\ heap[ret.recv] # DefaultParams
    /\ ret.result

\* C5: Equal returns false for two Params that differ in the value of at
\* least one of the seven fields.
EqualCoversEveryField ==
    ret.op = "Equal" =>
        LET a == heap[ret.recv]
            b == heap[ret.arg]
        IN  (\E f \in FieldNames : a[f] # b[f]) => ~ret.result

\* Two Params that differ in BondDenom only, one empty, were compared and
\* found unequal.
EqualCoversEveryFieldWitness ==
    /\ ret.op = "Equal"
    /\ heap[ret.recv] = DefaultParams
    /\ heap[ret.arg] = [DefaultParams EXCEPT !.BondDenom = <<>>]
    /\ ~ret.result

\* C6: every Params for which Validate returns nil has UnbondingTime >= 0.
ValidUnbondingTimeNonNegative ==
    (ret.op = "Validate" /\ ret.result = ErrNil) =>
        heap[ret.recv].UnbondingTime >= 0

\* C7: a call of Validate or Equal leaves every field of every Params (and
\* the pairs) as they were, returns nil or one of the five errors,
\* respectively a boolean, and returns what an immediately preceding call
\* with the same operands returned.
ValidateEqualPure ==
    [][ret'.op \in {"Validate", "Equal"} =>
          /\ heap' = heap
          /\ pairs' = pairs
          /\ ret'.op = "Validate" =>
                /\ ret'.result \in
                       {ErrNil, ErrBondDenom, ErrMaxValidators, ErrEpoch,
                        ErrMaxValsToVote, ErrMinSelfDelegationLimit}
                /\ (ret.op = "Validate" /\ ret.recv = ret'.recv) =>
                       ret'.result = ret.result
          /\ ret'.op = "Equal" =>
                /\ ret'.result \in BOOLEAN
                /\ (ret.op = "Equal" /\ ret.recv = ret'.recv
                        /\ ret.arg = ret'.arg) =>
                       ret'.result = ret.result]_vars

\* Validate was called on a Params with a zero Epoch while another Params
\* was in scope, and reported it.
ValidateEqualPureWitness ==
    /\ ret.op = "Validate"
    /\ ret.result = ErrEpoch
    /\ Declared(heap) = Inst

\* C8: NewParams returns, for every combination of arguments, the invalid
\* ones included, a Params each of whose seven fields is the like-named
\* argument.
NewParamsAggregates ==
    ret.op = "NewParams" =>
        LET p == heap[ret.recv]
        IN  /\ p.UnbondingTime = ret.args.unbondingTime
            /\ p.MaxValidators = ret.args.maxValidators
            /\ p.BondDenom = ret.args.bondDenom
            /\ p.Epoch = ret.args.epoch
            /\ p.MaxValsToVote = ret.args.maxValsToVote
            /\ p.MinSelfDelegationLimit = ret.args.minSelfDelegationLimited
            /\ p.MinDelegation = ret.args.minDelegation

\* NewParams was called with an empty denomination, zero MaxValidators and
\* Epoch, and a negative MinSelfDelegationLimit.
NewParamsAggregatesWitness ==
    /\ ret.op = "NewParams"
    /\ ret.args.bondDenom = <<>>
    /\ ret.args.maxValidators = 0
    /\ ret.args.epoch = 0
    /\ ret.args.maxValsToVote > 0
    /\ ret.args.minSelfDelegationLimited < 0
    /\ heap[ret.recv].BondDenom = <<>>

\* C9: Validate returns the same for two Params that differ in
\* MinDelegation only, zero and negative values included.
MinDelegationUnchecked ==
    ret.op = "Validate" =>
        \A md \in DecVals :
            Validate([heap[ret.recv] EXCEPT !.MinDelegation = md]) = ret.result

\* A Params with a negative MinDelegation was validated and accepted.
MinDelegationUncheckedWitness ==
    /\ ret.op = "Validate"
    /\ heap[ret.recv].MinDelegation < 0
    /\ ret.result = ErrNil

\* C10: a write through the pointer of the pair for a key changes at most
\* the matching field of that Params: its other six fields and every field
\* of every other Params in scope stay as they were.
WriteFrame ==
    [][ret'.op = "Set" =>
          /\ Declared(heap') = Declared(heap)
          /\ pairs' = pairs
          /\ \A i \in Declared(heap) : \A f \in FieldNames :
                (i # ret'.recv \/ f # KeyField(ret'.key)) =>
                    heap'[i][f] = heap[i][f]]_vars

\* A write made a Params invalid (zero MaxValidators, stored unchecked)
\* while a second Params, the defaults, was in scope.
WriteFrameWitness ==
    /\ ret.op = "Set"
    /\ ret.key = "MaxValidators"
    /\ Validate(heap[ret.recv]) = ErrMaxValidators
    /\ \E j \in Declared(heap) : j # ret.recv /\ heap[j] = DefaultParams

=============================================================================
